---- MODULE Spec2Model ----
(***************************************************************************)
(* Model of server/index.ts: the Express middleware stack built at module  *)
(* load, the one-time asynchronous initialization (initializationPromise), *)
(* the gate middleware that awaits it, the response logger and the error   *)
(* translator.  Requests walk the middleware stack the way Express's       *)
(* router does: in registration order, plain middleware skipped while an   *)
(* error is being forwarded, error middleware skipped otherwise.           *)
(***************************************************************************)
EXTENDS Naturals, Sequences, FiniteSets, TLC

\* ------------------------------------------------------------------ bounds
MaxReq == 2
\* Calls of res.json a handler makes on one response.
MaxJsonCalls == 2

Reqs == 1..MaxReq

\* ------------------------------------------------------- program constants
\* Paths are sequences of characters.
ApiPrefix == <<"/", "a", "p", "i">>
RoutePath == <<"/", "a", "p", "i", "/", "x">>
OtherPath == <<"/">>
Paths == {RoutePath, OtherPath}
Envs == {"development", "production"}

\* String.prototype.startsWith
StartsWith(s, prefix) ==
    /\ Len(s) >= Len(prefix)
    /\ \A i \in 1..Len(prefix) : s[i] = prefix[i]

\* Error objects: status / statusCode are 0 when the field is absent.
NoError == [name |-> "none", status |-> 0, statusCode |-> 0, message |-> <<>>]
ParseError == [name |-> "parse", status |-> 400, statusCode |-> 400, message |-> <<"b", "a", "d", " ", "j", "s", "o", "n">>]
RoutesError == [name |-> "routes", status |-> 0, statusCode |-> 0, message |-> <<"n", "o", " ", "d", "b">>]
ViteError == [name |-> "vite", status |-> 0, statusCode |-> 503, message |-> <<"n", "o", " ", "v", "i", "t", "e">>]
StaticError == [name |-> "static", status |-> 0, statusCode |-> 0, message |-> <<"n", "o", " ", "b", "u", "i", "l", "d">>]
HandlerError == [name |-> "handler", status |-> 404, statusCode |-> 0, message |-> <<"n", "o", "t", " ", "f", "o", "u", "n", "d">>]
AssetError == [name |-> "asset", status |-> 0, statusCode |-> 0, message |-> <<>>]
TeapotError == [name |-> "teapot", status |-> 418, statusCode |-> 503, message |-> <<"t", "e", "a", "p", "o", "t">>]

\* What a route handler / an asset collaborator does with a request it gets.
RouteOutcomes == {"answer", "throw"}
AssetOutcomes == {"answer", "error"}

VARIABLES
    env,            \* app.get("env")
    vercel,         \* process.env.VERCEL is set
    stack,          \* app._router.stack: the layers in registration order
    initPc,         \* position of the initialization async function
    outcome,        \* state of initializationPromise
    initError,      \* its rejection reason
    isInitialized,  \* the flag of line 48
    registerCalls,  \* calls of registerRoutes
    listenCalls,    \* calls of server.listen
    exported,       \* the module's default export
    req,            \* the requests
    res             \* one response seen through the logger's closure, in detail

vars == <<env, vercel, stack, initPc, outcome, initError, isInitialized,
          registerCalls, listenCalls, exported, req, res>>

initVars == <<env, vercel, stack, initPc, outcome, initError, isInitialized,
              registerCalls, listenCalls, exported>>

IdleReq ==
    [pc |-> "idle", path |-> OtherPath, malformed |-> FALSE, arrivedAt |-> "none",
     cors |-> FALSE, wrapped |-> FALSE, idx |-> 0, waited |-> FALSE,
     gate |-> "none", routeAt |-> "never", servedBy |-> "none",
     err |-> NoError, status |-> 0, lines |-> <<>>]

\* The response object before the logger middleware has run.
NewRes ==
    [pc |-> "new", method |-> <<>>, path |-> <<>>, duration |-> 0, statusCode |-> 200,
     called |-> FALSE, captured |-> [type |-> "undefined"], calls |-> <<>>,
     sent |-> <<>>, err |-> NoError, logged |-> <<>>]

Init ==
    /\ res = NewRes
    /\ env \in Envs
    /\ vercel \in BOOLEAN
    /\ stack = <<>>
    /\ initPc = "notStarted"
    /\ outcome = "pending"
    /\ initError = NoError
    /\ isInitialized = FALSE
    /\ registerCalls = 0
    /\ listenCalls = 0
    /\ exported = "none"
    /\ req = [r \in Reqs |-> IdleReq]

InStack(l) == \E i \in 1..Len(stack) : stack[i] = l

IndexOf(l) == CHOOSE i \in 1..Len(stack) : stack[i] = l

CountOf(l) == Cardinality({i \in 1..Len(stack) : stack[i] = l})

\* ------------------------------------------------------- the request pipeline

\* res.status(s).json(...) / res.end(): the response is written.
Respond(q, by, e, s) ==
    [q EXCEPT !.pc = "responded", !.servedBy = by, !.err = e, !.status = s]

ErrorStatus_StatusCodeFirst(e) ==
    IF e.statusCode # 0 THEN e.statusCode
    ELSE IF e.status # 0 THEN e.status
    ELSE 500

\* Error translator: err.status || err.statusCode || 500
ErrorStatus(e) ==
    IF e.status # 0 THEN e.status
    ELSE IF e.statusCode # 0 THEN e.statusCode
    ELSE 500

\* Error translator: respond with the resolved status, then log the Error line.
ErrorTranslator(q, e) ==
    [Respond(q, "translator", e, ErrorStatus(e)) EXCEPT
        !.lines = Append(q.lines, [kind |-> "error", status |-> ErrorStatus(e)])]

\* Express's default handler when the stack is exhausted: 404 without an
\* error, else the error's status (or 500); it is not the JSON translator.
FinalHandler(q, e) ==
    IF e.name = "none" THEN Respond(q, "default", e, 404)
    ELSE Respond(q, "default", e, ErrorStatus(e))

\* express.json(): a malformed body fails the stage with a 400 error.
JsonParser(q) == IF q.malformed THEN ParseError ELSE NoError

\* CORS middleware: the three headers are set.
Cors(q) == [q EXCEPT !.cors = TRUE]

\* Response logger middleware: res.json is wrapped, the finish listener is
\* registered.
Logger(q) == [q EXCEPT !.wrapped = TRUE]

GateSuspends_Always == TRUE

\* Gate middleware, line 97: the request awaits the promise unless the flag
\* is set.
GateSuspends == ~isInitialized

\* Gate middleware suspended at `await initializationPromise`.
GateSuspend(q, i) ==
    [q EXCEPT !.pc = "suspended", !.idx = i, !.waited = TRUE, !.gate = "waiting"]

\* next(): the router's walk over the layers from index i on, with the error e
\* being forwarded (NoError when none).  ro and ao are what the route
\* handler and the asset collaborator do if the request reaches them.
RECURSIVE Walk(_, _, _, _, _)
Walk(q, i, e, ro, ao) ==
    IF i > Len(stack) THEN FinalHandler(q, e)
    ELSE LET l == stack[i]
             isErr == e.name # "none"
         IN
         IF l = "translator"
         THEN IF isErr THEN ErrorTranslator(q, e) ELSE Walk(q, i + 1, e, ro, ao)
         ELSE IF isErr THEN Walk(q, i + 1, e, ro, ao)
         ELSE CASE l = "json" -> Walk(q, i + 1, JsonParser(q), ro, ao)
                [] l = "urlencoded" -> Walk(q, i + 1, e, ro, ao)
                [] l = "cors" -> Walk(Cors(q), i + 1, e, ro, ao)
                [] l = "logger" -> Walk(Logger(q), i + 1, e, ro, ao)
                [] l = "route" ->
                     IF q.path # RoutePath THEN Walk(q, i + 1, e, ro, ao)
                     ELSE LET d == [q EXCEPT !.routeAt = outcome] IN
                          IF ro = "answer" THEN Respond(d, "route", NoError, 200)
                          ELSE Walk(d, i + 1, HandlerError, ro, ao)
                [] l = "gate" ->
                     IF GateSuspends THEN GateSuspend(q, i)
                     ELSE Walk([q EXCEPT !.gate = "next"], i + 1, e, ro, ao)
                [] l \in {"vite", "static"} ->
                     IF ao = "answer" THEN Respond(q, "asset", NoError, 200)
                     ELSE Walk(q, i + 1, AssetError, ro, ao)

\* ------------------------------------------------------------- module load

\* Lines 10-45: body parsers, CORS, response logger.
BaseStack == <<"json", "urlencoded", "cors", "logger">>

\* Line 109.
DefaultExport == IF vercel THEN "serverless" ELSE "app"

ModuleLoad_InitFirst(attachSync) ==
    /\ initPc = "notStarted"
    /\ stack' = <<"json", "urlencoded", "cors">>
                    \o (IF attachSync THEN <<"route">> ELSE <<>>) \o <<"logger", "gate">>
    /\ registerCalls' = registerCalls + 1
    /\ initPc' = "awaitRoutes"
    /\ exported' = DefaultExport
    /\ UNCHANGED <<env, vercel, outcome, initError, isInitialized, listenCalls, req, res>>

ModuleLoad_TranslatorEarly(attachSync) ==
    /\ initPc = "notStarted"
    /\ stack' = BaseStack \o <<"translator">>
                    \o (IF attachSync THEN <<"route">> ELSE <<>>) \o <<"gate">>
    /\ registerCalls' = registerCalls + 1
    /\ initPc' = "awaitRoutes"
    /\ exported' = DefaultExport
    /\ UNCHANGED <<env, vercel, outcome, initError, isInitialized, listenCalls, req, res>>

\* Lines 8-109, one synchronous run: the base middleware, then the async
\* function runs up to `await registerRoutes(app)` (registerRoutes has run
\* up to its own first suspension and, with attachSync, has attached its
\* handlers by then), then the gate middleware is added, then the export.
ModuleLoad(attachSync) ==
    /\ initPc = "notStarted"
    /\ stack' = BaseStack \o (IF attachSync THEN <<"route">> ELSE <<>>) \o <<"gate">>
    /\ registerCalls' = registerCalls + 1
    /\ initPc' = "awaitRoutes"
    /\ exported' = DefaultExport
    /\ UNCHANGED <<env, vercel, outcome, initError, isInitialized, listenCalls, req, res>>

\* registerRoutes attaches its handlers after it has suspended.
RegistrarAttach ==
    /\ initPc = "awaitRoutes"
    /\ ~InStack("route")
    /\ stack' = Append(stack, "route")
    /\ UNCHANGED <<env, vercel, initPc, outcome, initError, isInitialized,
                   registerCalls, listenCalls, exported, req, res>>

\* Lines 86-87 and the return: the flag is set and the promise resolves.
InitSucceed ==
    /\ isInitialized' = TRUE
    /\ outcome' = "succeeded"
    /\ initPc' = "done"
    /\ UNCHANGED initError

InitCatch_SetsFlag(e) ==
    /\ outcome' = "failed"
    /\ initError' = e
    /\ initPc' = "failed"
    /\ isInitialized' = TRUE

\* Lines 88-92: the catch block rethrows, the promise rejects with the error.
InitCatch(e) ==
    /\ outcome' = "failed"
    /\ initError' = e
    /\ initPc' = "failed"
    /\ UNCHANGED isInitialized

RegisterRoutesResolve_WireFirst(staticOk) ==
    /\ initPc = "awaitRoutes"
    /\ IF env = "development"
       THEN /\ stack' = Append(stack, "translator")
            /\ initPc' = "awaitVite"
            /\ UNCHANGED <<outcome, initError, isInitialized>>
       ELSE IF staticOk
       THEN /\ stack' = stack \o <<"static", "translator">>
            /\ InitSucceed
       ELSE /\ stack' = Append(stack, "translator")
            /\ InitCatch(StaticError)
    /\ UNCHANGED <<env, vercel, registerCalls, listenCalls, exported, req, res>>

\* registerRoutes resolved; lines 53-85 run: the error translator is added,
\* then in development setupVite is called and awaited, otherwise
\* serveStatic runs (staticOk: it finds the build directory) and
\* initialization completes.
RegisterRoutesResolve(staticOk) ==
    /\ initPc = "awaitRoutes"
    /\ IF env = "development"
       THEN /\ stack' = Append(stack, "translator")
            /\ initPc' = "awaitVite"
            /\ UNCHANGED <<outcome, initError, isInitialized>>
       ELSE IF staticOk
       THEN /\ stack' = stack \o <<"translator", "static">>
            /\ InitSucceed
       ELSE /\ stack' = Append(stack, "translator")
            /\ InitCatch(StaticError)
    /\ UNCHANGED <<env, vercel, registerCalls, listenCalls, exported, req, res>>

\* registerRoutes rejected (or threw): line 52 throws into the catch block.
RegisterRoutesReject ==
    /\ initPc = "awaitRoutes"
    /\ InitCatch(RoutesError)
    /\ UNCHANGED <<env, vercel, stack, registerCalls, listenCalls, exported, req, res>>

Listen_Unconditional == listenCalls + 1

\* Lines 75-81: server.listen unless VERCEL is set.
Listen == IF vercel THEN listenCalls ELSE listenCalls + 1

SetupViteResolve_AlsoStatic ==
    /\ initPc = "awaitVite"
    /\ stack' = stack \o <<"vite", "static">>
    /\ listenCalls' = Listen
    /\ InitSucceed
    /\ UNCHANGED <<env, vercel, registerCalls, exported, req, res>>

\* setupVite resolved (its middleware is attached); lines 75-87 run.
SetupViteResolve ==
    /\ initPc = "awaitVite"
    /\ stack' = Append(stack, "vite")
    /\ listenCalls' = Listen
    /\ InitSucceed
    /\ UNCHANGED <<env, vercel, registerCalls, exported, req, res>>

\* setupVite rejected: line 73 throws into the catch block.
SetupViteReject ==
    /\ initPc = "awaitVite"
    /\ InitCatch(ViteError)
    /\ UNCHANGED <<env, vercel, stack, registerCalls, listenCalls, exported, req, res>>

\* ----------------------------------------------------------------- requests

\* A request arrives and runs down the stack until it is answered or
\* suspends at the gate.  Requests are numbered in arrival order.
Arrive(r, p, m, ro, ao) ==
    /\ initPc # "notStarted"
    /\ req[r].pc = "idle"
    /\ \A k \in 1..(r - 1) : req[k].pc # "idle"
    /\ req' = [req EXCEPT ![r] =
            Walk([IdleReq EXCEPT !.path = p, !.malformed = m, !.arrivedAt = outcome],
                 1, NoError, ro, ao)]
    /\ UNCHANGED <<initVars, res>>

GateResume_ReInit(r, ro, ao) ==
    /\ req[r].pc = "suspended"
    /\ outcome # "pending"
    /\ req' = [req EXCEPT ![r] =
            IF outcome = "succeeded"
            THEN Walk([req[r] EXCEPT !.gate = "next"], req[r].idx + 1, NoError, ro, ao)
            ELSE Walk([req[r] EXCEPT !.gate = "nextError"], req[r].idx + 1,
                      initError, ro, ao)]
    /\ registerCalls' = IF outcome = "failed" THEN registerCalls + 1 ELSE registerCalls
    /\ UNCHANGED <<env, vercel, stack, initPc, outcome, initError, isInitialized,
                   listenCalls, exported, res>>

GateResume_OnlySuccess(r, ro, ao) ==
    /\ req[r].pc = "suspended"
    /\ outcome = "succeeded"
    /\ req' = [req EXCEPT ![r] =
            Walk([req[r] EXCEPT !.gate = "next"], req[r].idx + 1, NoError, ro, ao)]
    /\ UNCHANGED <<initVars, res>>

\* Lines 98-104 after the await: the promise has settled, the suspended
\* request continues with next() or next(error).
GateResume(r, ro, ao) ==
    /\ req[r].pc = "suspended"
    /\ outcome # "pending"
    /\ req' = [req EXCEPT ![r] =
            IF outcome = "succeeded"
            THEN Walk([req[r] EXCEPT !.gate = "next"], req[r].idx + 1, NoError, ro, ao)
            ELSE Walk([req[r] EXCEPT !.gate = "nextError"], req[r].idx + 1,
                      initError, ro, ao)]
    /\ UNCHANGED <<initVars, res>>

OnFinish_StartStatus(q) ==
    IF q.wrapped /\ StartsWith(q.path, ApiPrefix)
    THEN Append(q.lines, [kind |-> "request", status |-> 200])
    ELSE q.lines

\* Lines 31-43: the finish listener, if the logger registered one, logs the
\* request line for an /api path, with res.statusCode as it is then.
OnFinish(q) ==
    IF q.wrapped /\ StartsWith(q.path, ApiPrefix)
    THEN Append(q.lines, [kind |-> "request", status |-> q.status])
    ELSE q.lines

\* The response has been handed to the network: "finish" is emitted.
Finish(r) ==
    /\ req[r].pc = "responded"
    /\ req' = [req EXCEPT ![r] = [req[r] EXCEPT !.pc = "finished",
                                                !.lines = OnFinish(req[r])]]
    /\ UNCHANGED <<initVars, res>>

Next ==
    \/ \E a \in BOOLEAN : ModuleLoad(a)
    \/ RegistrarAttach
    \/ \E ok \in BOOLEAN : RegisterRoutesResolve(ok)
    \/ RegisterRoutesReject
    \/ SetupViteResolve
    \/ SetupViteReject
    \/ \E r \in Reqs, p \in Paths, m \in BOOLEAN, ro \in RouteOutcomes,
          ao \in AssetOutcomes : Arrive(r, p, m, ro, ao)
    \/ \E r \in Reqs, ro \in RouteOutcomes, ao \in AssetOutcomes : GateResume(r, ro, ao)
    \/ \E r \in Reqs : Finish(r)

Spec == Init /\ [][Next]_vars

\* The event loop runs the continuation of every await whose promise has
\* settled.
FairSpec ==
    Spec /\ \A r \in Reqs :
        WF_vars(\E ro \in RouteOutcomes, ao \in AssetOutcomes : GateResume(r, ro, ao))

\* ------------------------------------------- one response, in detail

\* Lines 38-39: the length budget of a log line and what slice keeps.
LineBudget == 80
SliceEnd == 79

\* Line 39: the marker appended to a cut line, as the source file has it:
\* the three code units U+00E2 U+20AC U+00A6.
TruncationMarker == <<"U+00E2", "U+20AC", "U+00A6">>

DigitChars == <<"0", "1", "2", "3", "4", "5", "6", "7", "8", "9">>

\* Number to string, as a template literal renders it.
RECURSIVE ToStr(_)
ToStr(n) ==
    IF n < 10 THEN <<DigitChars[n + 1]>>
    ELSE ToStr(n \div 10) \o <<DigitChars[(n % 10) + 1]>>

\* JSON values.
JUndefined == [type |-> "undefined"]
JNull == [type |-> "null"]
JBool(b) == [type |-> "bool", b |-> b]
JStr(str) == [type |-> "str", s |-> str]
JObj(k, v) == [type |-> "obj", key |-> k, val |-> v]

\* JavaScript truthiness, the test of line 35.
Truthy(v) ==
    CASE v.type = "undefined" -> FALSE
      [] v.type = "null" -> FALSE
      [] v.type = "bool" -> v.b
      [] v.type = "str" -> Len(v.s) > 0
      [] v.type = "obj" -> TRUE

\* JSON.stringify (strings here need no escaping).
RECURSIVE Stringify(_)
Stringify(v) ==
    CASE v.type = "null" -> <<"n", "u", "l", "l">>
      [] v.type = "bool" ->
            IF v.b THEN <<"t", "r", "u", "e">> ELSE <<"f", "a", "l", "s", "e">>
      [] v.type = "str" -> <<"\"">> \o v.s \o <<"\"">>
      [] v.type = "obj" ->
            <<"{", "\"">> \o v.key \o <<"\"", ":">> \o Stringify(v.val) \o <<"}">>

\* A string of n characters.
Fill(n) == [i \in 1..n |-> "x"]

MessageKey == <<"m", "e", "s", "s", "a", "g", "e">>
DefaultMessage ==
    <<"I", "n", "t", "e", "r", "n", "a", "l", " ", "S", "e", "r", "v", "e", "r", " ",
      "E", "r", "r", "o", "r">>

\* Lengths of the message a handler answers with: short ones, and the ones
\* that bring the line of GET /api/x to 79, 80, 81 and more characters.
FillLens == {0, 39, 40, 41, 42, 60}

\* The bodies a handler passes to res.json.
Bodies ==
    {JNull, JBool(FALSE), JStr(<<>>), JObj(<<"o", "k">>, JBool(TRUE))}
        \cup {JObj(MessageKey, JStr(Fill(n))) : n \in FillLens}

Methods == {<<"G", "E", "T">>, <<"P", "O", "S", "T">>}
Durations == {3, 12}
Statuses == {200, 404}
ErrorInputs ==
    {ParseError, RoutesError, ViteError, StaticError, HandlerError, AssetError, TeapotError}

\* String.prototype.slice(0, n)
Slice(str, n) == SubSeq(str, 1, IF Len(str) < n THEN Len(str) ELSE n)

\* Lines 34-37: the line the finish listener builds.
BuildLine(r, d) ==
    r.method \o <<" ">> \o r.path \o <<" ">> \o ToStr(r.statusCode)
        \o <<" ", "i", "n", " ">> \o ToStr(d) \o <<"m", "s">>
        \o (IF Truthy(r.captured)
            THEN <<" ", ":", ":", " ">> \o Stringify(r.captured)
            ELSE <<>>)

\* Lines 38-40.
Truncate(line) ==
    IF Len(line) > LineBudget THEN Slice(line, SliceEnd) \o TruncationMarker ELSE line

\* Line 64: err.message || "Internal Server Error"
ErrorMessage(e) == IF Len(e.message) > 0 THEN e.message ELSE DefaultMessage

\* Line 65: the body { message }.
ErrorBody(e) == JObj(MessageKey, JStr(ErrorMessage(e)))

\* Line 66: `Error: ${message} (status: ${status})`
ErrorLine(e) ==
    <<"E", "r", "r", "o", "r", ":", " ">> \o ErrorMessage(e)
        \o <<" ", "(", "s", "t", "a", "t", "u", "s", ":", " ">> \o ToStr(ErrorStatus(e))
        \o <<")">>

WrappedJson_FirstWins(r, b) ==
    [r EXCEPT !.called = TRUE,
              !.captured = IF r.called THEN r.captured ELSE b,
              !.sent = Append(r.sent, b)]

\* Lines 27-30: the wrapper records the body, then calls the original json.
WrappedJson(r, b) ==
    [r EXCEPT !.called = TRUE, !.captured = b, !.sent = Append(r.sent, b)]

\* Lines 22-30 and 44: the logger middleware runs for a request.
LoggerEnter(m, p) ==
    /\ res.pc = "new"
    /\ res' = [res EXCEPT !.pc = "handling", !.method = m, !.path = p]
    /\ UNCHANGED <<initVars, req>>

\* A handler calls res.status(s).
ResStatus(st) ==
    /\ res.pc = "handling"
    /\ res.statusCode # st
    /\ res' = [res EXCEPT !.statusCode = st]
    /\ UNCHANGED <<initVars, req>>

\* A handler calls res.json(b).
ResJson(b) ==
    /\ res.pc = "handling"
    /\ Len(res.sent) < MaxJsonCalls
    /\ res' = WrappedJson([res EXCEPT !.calls = Append(res.calls, b)], b)
    /\ UNCHANGED <<initVars, req>>

\* The handler is done and the response is complete.
ResEnd ==
    /\ res.pc = "handling"
    /\ res' = [res EXCEPT !.pc = "responded"]
    /\ UNCHANGED <<initVars, req>>

\* Lines 62-67: the error translator answers the error e.
TranslateError(e) ==
    /\ res.pc = "handling"
    /\ res' = [WrappedJson([res EXCEPT !.statusCode = ErrorStatus(e),
                                        !.calls = Append(res.calls, ErrorBody(e))],
                            ErrorBody(e))
                  EXCEPT !.pc = "responded",
                         !.err = e,
                         !.logged = Append(res.logged,
                                           [kind |-> "error", built |-> ErrorLine(e),
                                            out |-> ErrorLine(e)])]
    /\ UNCHANGED <<initVars, req>>

\* Lines 31-43: "finish" is emitted d milliseconds after the start.
FinishEvent(d) ==
    /\ res.pc = "responded"
    /\ res' = [res EXCEPT
                 !.pc = "finished",
                 !.duration = d,
                 !.logged = IF StartsWith(res.path, ApiPrefix)
                            THEN Append(res.logged,
                                        [kind |-> "request", built |-> BuildLine(res, d),
                                         out |-> Truncate(BuildLine(res, d))])
                            ELSE res.logged]
    /\ UNCHANGED <<initVars, req>>

LoggerNext ==
    \/ \E m \in Methods, p \in Paths : LoggerEnter(m, p)
    \/ \E st \in Statuses : ResStatus(st)
    \/ \E b \in Bodies : ResJson(b)
    \/ ResEnd
    \/ \E e \in ErrorInputs : TranslateError(e)
    \/ \E d \in Durations : FinishEvent(d)

LoggerSpec == Init /\ [][LoggerNext]_vars

\* ------------------------------------------------------------------ claims

Answered(q) == q.pc \in {"responded", "finished"}

\* Number of request lines the response logger emitted for q.
RequestLines(q) == Cardinality({i \in 1..Len(q.lines) : q.lines[i].kind = "request"})

\* The serving strategies wired so far.
AssetsWired == {l \in {"vite", "static"} : InStack(l)}
StrategiesWired == AssetsWired \cup (IF exported = "serverless" THEN {"serverless"} ELSE {})

\* C1: no request reaches a handler attached by registerRoutes while the
\* initialization is still pending.
C1_NoDispatchBeforeSettled ==
    \A r \in Reqs : req[r].routeAt # "pending"

\* C2: of the requests that arrived while the initialization was pending,
\* never is one served by a route and another failed by the gate.
C2_NoMixedOutcome ==
    ~ \E a, b \in Reqs :
        /\ req[a].arrivedAt = "pending" /\ req[b].arrivedAt = "pending"
        /\ req[a].servedBy = "route"
        /\ req[b].gate = "nextError"

\* C3: once the initialization has failed, every request the gate forwards
\* with the failure, whether it was waiting or arrived afterwards, is answered
\* by the error translator with the resolved status, and has reached no route.
C3_FailureAllTranslated ==
    outcome = "failed" =>
        \A r \in Reqs :
            (Answered(req[r]) /\ req[r].gate = "nextError") =>
                /\ req[r].servedBy = "translator"
                /\ req[r].status = ErrorStatus(initError)
                /\ req[r].routeAt = "never"

C5_InitOnce ==
    /\ [](/\ registerCalls <= 1
          /\ (initPc # "notStarted" => registerCalls = 1)
          /\ CountOf("translator") <= 1
          /\ CountOf("vite") + CountOf("static") <= 1
          /\ CountOf("gate") <= 1
          /\ listenCalls <= 1)
    /\ [][req' # req => UNCHANGED initVars]_vars

C5_ManyRequestsOneInit ==
    /\ outcome = "succeeded"
    /\ registerCalls = 1
    /\ \E a, b \in Reqs :
        /\ a # b
        /\ req[a].waited /\ req[a].gate = "next" /\ Answered(req[a])
        /\ ~req[b].waited /\ req[b].gate = "next" /\ Answered(req[b])

\* C6: a request suspended at the gate after the outcome has settled is
\* eventually resumed, with next() on success and next(error) on failure.
C6_SuspendedResume ==
    \A r \in Reqs :
        (req[r].pc = "suspended" /\ outcome # "pending")
            ~> (/\ req[r].pc # "suspended"
                /\ req[r].gate = IF outcome = "succeeded" THEN "next" ELSE "nextError")

C6_WaiterResumed ==
    \E a, b \in Reqs :
        /\ a # b
        /\ req[a].arrivedAt = "pending" /\ req[a].waited /\ Answered(req[a])
        /\ req[b].arrivedAt = "pending" /\ req[b].waited /\ Answered(req[b])

\* C7 as stated: a request arriving after the outcome has settled, success
\* or failure, never suspends at the gate.
C7_SettledNeverSuspends ==
    \A r \in Reqs : req[r].arrivedAt \in {"succeeded", "failed"} => ~req[r].waited

\* C7 amended: a request arriving after a successful initialization passes
\* the gate without suspending; one arriving after a failed initialization
\* and reaching the gate suspends at the await of the rejected promise.
C7_SucceededNeverSuspends ==
    \A r \in Reqs :
        /\ req[r].arrivedAt = "succeeded" => ~req[r].waited
        /\ (req[r].arrivedAt = "failed" /\ req[r].gate # "none") => req[r].waited

C7_PassedWithoutSuspending ==
    \E r \in Reqs :
        /\ req[r].arrivedAt = "succeeded"
        /\ req[r].gate = "next"
        /\ ~req[r].waited
        /\ Answered(req[r])

\* C8: with VERCEL set no listener is ever bound and the export is the
\* serverless handler; a listener is bound only in development without it.
C8_NoListenerWhenManaged ==
    /\ vercel => listenCalls = 0
    /\ listenCalls > 0 => (env = "development" /\ ~vercel)
    /\ initPc # "notStarted" => (exported = "serverless" <=> vercel)
    /\ (outcome = "succeeded" /\ env = "development" /\ ~vercel) => listenCalls = 1

C8_ManagedDevelopmentUp ==
    /\ vercel
    /\ env = "development"
    /\ outcome = "succeeded"
    /\ listenCalls = 0
    /\ exported = "serverless"

\* C9 as stated: after initialization exactly one of the three serving
\* strategies is wired.
C9_ExactlyOneStrategy ==
    outcome = "succeeded" => Cardinality(StrategiesWired) = 1

\* C9 amended: after a successful initialization exactly one of the two
\* asset collaborators is wired, the development one exactly in development;
\* the serverless adapter is the export exactly when VERCEL is set, in
\* addition to the asset collaborator; what is wired is never unwired or
\* replaced.
C9_OneAssetPlusAdapter ==
    /\ [](Cardinality(AssetsWired) <= 1)
    /\ [](outcome = "succeeded" =>
            /\ AssetsWired = IF env = "development" THEN {"vite"} ELSE {"static"}
            /\ ("serverless" \in StrategiesWired) <=> vercel)
    /\ [][/\ StrategiesWired \subseteq StrategiesWired'
          /\ AssetsWired # {} => AssetsWired' = AssetsWired]_vars

C9_TwoStrategiesWired ==
    /\ outcome = "succeeded"
    /\ StrategiesWired = {"static", "serverless"}

\* C10: a finished response has exactly one request line when its path starts
\* with /api and none otherwise.
C10_ApiLoggedOnce ==
    \A r \in Reqs :
        req[r].pc = "finished" =>
            RequestLines(req[r]) = IF StartsWith(req[r].path, ApiPrefix) THEN 1 ELSE 0

\* The request lines of the response followed in detail.
RequestLog == {i \in 1..Len(res.logged) : res.logged[i].kind = "request"}

BodySeparator == <<" ", ":", ":", " ">>

\* The line ends with the characters of suffix.
EndsWith(line, suffix) ==
    /\ Len(line) >= Len(suffix)
    /\ SubSeq(line, Len(line) - Len(suffix) + 1, Len(line)) = suffix

\* The line has a " :: " in it.
HasBody(line) ==
    \E i \in 1..Len(line) :
        i + 3 <= Len(line) /\ SubSeq(line, i, i + 3) = BodySeparator

\* C11: a logged request line has at most 80 characters: a line of at most 80
\* is logged as built, a longer one as its first 79 characters and one more
\* character, 80 in all.
C11_LineWithinBudget ==
    \A i \in RequestLog :
        LET l == res.logged[i] IN
        /\ Len(l.out) <= 80
        /\ Len(l.built) <= 80 => l.out = l.built
        /\ Len(l.built) > 80 =>
              (Len(l.out) = 80 /\ SubSeq(l.out, 1, 79) = SubSeq(l.built, 1, 79))

C13_TranslatorAnswer ==
    res.err.name # "none" =>
        LET e == res.err
            body == res.sent[Len(res.sent)]
        IN
        /\ e.status # 0 => res.statusCode = e.status
        /\ (e.status = 0 /\ e.statusCode # 0) => res.statusCode = e.statusCode
        /\ (e.status = 0 /\ e.statusCode = 0) => res.statusCode = 500
        /\ body.type = "obj" /\ body.key = MessageKey /\ body.val.type = "str"
        /\ body.val.s = IF e.message = <<>> THEN DefaultMessage ELSE e.message
        /\ (e.status = 404 /\ e.message = <<"n", "o", "t", " ", "f", "o", "u", "n", "d">>) =>
              /\ res.statusCode = 404
              /\ Stringify(body) = <<"{", "\"", "m", "e", "s", "s", "a", "g", "e", "\"", ":",
                                     "\"", "n", "o", "t", " ", "f", "o", "u", "n", "d",
                                     "\"", "}">>

C13_NotFoundTranslated ==
    /\ res.pc = "finished"
    /\ res.err = HandlerError
    /\ res.statusCode = 404

\* Layer a stands before layer b wherever both are in the stack.
Before(a, b) ==
    \A i, j \in 1..Len(stack) : (stack[i] = a /\ stack[j] = b) => i < j

\* C14: routes are registered, then the translator is installed, then the
\* mode-specific wiring is done, each only after the step before it has
\* completed; isInitialized is set only after the last step, and a failed
\* step leaves every later step undone.
C14_StepsInOrder ==
    /\ InStack("translator") => initPc \notin {"notStarted", "awaitRoutes"}
    /\ Before("route", "translator")
    /\ AssetsWired # {} => (InStack("translator") /\ initPc = "done")
    /\ Before("translator", "vite") /\ Before("translator", "static")
    /\ listenCalls > 0 => InStack("vite")
    /\ isInitialized =>
          /\ AssetsWired # {}
          /\ (env = "development" /\ ~vercel) => listenCalls = 1
    /\ initError = RoutesError =>
          (~InStack("translator") /\ AssetsWired = {} /\ listenCalls = 0 /\ ~isInitialized)
    /\ initError \in {ViteError, StaticError} =>
          (AssetsWired = {} /\ listenCalls = 0 /\ ~isInitialized)

C14_DevelopmentFullyWired ==
    /\ outcome = "succeeded"
    /\ isInitialized
    /\ stack = <<"json", "urlencoded", "cors", "logger", "gate", "route", "translator", "vite">>
    /\ listenCalls = 1

\* C15: every request answered because of an error, whatever raised it, is
\* answered by the error translator.
C15_AllErrorsTranslated ==
    \A r \in Reqs :
        (Answered(req[r]) /\ req[r].err.name # "none") => req[r].servedBy = "translator"

\* C16: every request that is answered has had the CORS headers set and
\* its res.json wrapped by the response logger.
C16_CorsAndLoggerAlways ==
    \A r \in Reqs : Answered(req[r]) => (req[r].cors /\ req[r].wrapped)

\* C17: a request that reached a route handler had its res.json wrapped, and
\* the logger stands before every route in the stack.
C17_RouteSeesWrappedJson ==
    /\ \A r \in Reqs : req[r].routeAt # "never" => req[r].wrapped
    /\ Before("logger", "route")

C17_RouteBeforeGateWrapped ==
    \E r \in Reqs :
        /\ req[r].servedBy = "route"
        /\ req[r].routeAt = "pending"
        /\ req[r].wrapped

\* C18: a request line exists only once the response has finished and shows
\* the status the client got; when the translator answered, its Error line
\* comes first and every request line after it.
C18_RequestLineAfterFinish ==
    \A r \in Reqs :
        LET q == req[r] IN
        /\ \A i \in 1..Len(q.lines) :
              q.lines[i].kind = "request" => (q.pc = "finished" /\ q.lines[i].status = q.status)
        /\ q.servedBy = "translator" =>
              /\ Len(q.lines) >= 1
              /\ q.lines[1] = [kind |-> "error", status |-> q.status]
              /\ \A i \in 1..Len(q.lines) : q.lines[i].kind = "request" => i > 1

C18_ErrorThenRequestLine ==
    \E r \in Reqs :
        /\ req[r].pc = "finished"
        /\ req[r].servedBy = "translator"
        /\ req[r].lines = <<[kind |-> "error", status |-> 404],
                            [kind |-> "request", status |-> 404]>>

\* C19: wherever the translator is installed the gate stands before it, and
\* a failure the gate forwards when the translator is installed is answered
\* by the translator.
C19_TranslatorBehindGate ==
    /\ \A i \in 1..Len(stack) :
          stack[i] = "translator" => \E j \in 1..(i - 1) : stack[j] = "gate"
    /\ \A r \in Reqs :
          (req[r].gate = "nextError" /\ Answered(req[r]) /\ InStack("translator"))
              => req[r].servedBy = "translator"

C19_LateFailureTranslated ==
    \E r \in Reqs :
        /\ initError = ViteError
        /\ req[r].gate = "nextError"
        /\ req[r].arrivedAt = "pending"
        /\ req[r].servedBy = "translator"
        /\ req[r].status = 503
====
